---- MODULE Spec2Model ----
(***************************************************************************)
(* The browser-side animation widget of the HoloViews notebook templates:  *)
(* the base Jinja template (src/unnamed/part_000) and the template that    *)
(* extends it with the nbagg/d3 blocks (src/doc/Homepage.ipynb, lines      *)
(* 89-185).  The widget object, its frame cache, its key map and the       *)
(* kernel execute requests it has in flight are the state; the browser's   *)
(* event loop runs one handler at a time, so every handler is one action.  *)
(***************************************************************************)
EXTENDS Integers, Sequences, FiniteSets, TLC

\* ------------------------------------------------------------------ bounds
\* Frame indices the template may embed in the frame map: 0 .. MaxFrames-1.
MaxFrames == 4
\* init_slider plus set_frame invocations in one behaviour.
MaxCalls == 3
\* Objects the session creates, integer IDs the Store hands out, and nested
\* with-blocks open at once.
MaxObjs == 3
MaxIds == 2
MaxDepth == 2
\* Key presses and slide events on the slider in one behaviour, and the time
\* up to which the clock ticks on its own.
MaxPresses == 1
MaxSlides == 1
MaxTime == 2

\* ------------------------------------------------------------ JS values
\* JavaScript's undefined, the value of keyMap[key] for a key keyMap lacks.
undefined == -1

\* A dimension value of a valMap array: a JSON number (kept in tenths, so
\* that 0.5 is 5 and 2 is 20) or a JSON string.
Num(t) == [isnum |-> TRUE, tenths |-> t, str |-> ""]
Str(s) == [isnum |-> FALSE, tenths |-> 0, str |-> s]

DigitStr == <<"0", "1", "2", "3", "4", "5", "6", "7", "8", "9">>

RECURSIVE IntStr(_)
\* The decimal digits of a natural number.
IntStr(n) ==
    IF n < 10 THEN DigitStr[n + 1]
    ELSE IntStr(n \div 10) \o DigitStr[(n % 10) + 1]

\* The strings among the dimension values that Number() reads as a number;
\* it turns every other string into NaN.
NumericStrings == {"7"}

\* Line 102: isNaN converts its argument to a number first.
isNaN(val) == ~val.isnum /\ val.str \notin NumericStrings

\* val.toFixed(fixed) of a value that has no such method.
TypeError == "TypeError: val.toFixed is not a function"

\* Number.prototype.toFixed for a number held in tenths; a string has no
\* toFixed method.
toFixed(val, fixed) ==
    IF ~val.isnum THEN TypeError
    ELSE IF fixed = 1
    THEN IntStr(val.tenths \div 10) \o "." \o DigitStr[(val.tenths % 10) + 1]
    ELSE IntStr(val.tenths \div 10) \o "." \o DigitStr[(val.tenths % 10) + 1]
         \o "000000000"

\* Lines 101-106: a value that passes the isNaN test is rewritten by
\* toFixed, with one decimal when val % 1 is 0 and with ten otherwise; any
\* other value is left as it is.
FormatVal(val) ==
    IF ~isNaN(val)
    THEN IF val.tenths % 10 = 0 THEN toFixed(val, 1) ELSE toFixed(val, 10)
    ELSE val.str

\* The loop of lines 99-111 ends in the TypeError of line 105 when a value
\* passes the isNaN test without being a number.
KeyThrows(vals, n) == \E i \in 1..n : ~isNaN(vals[i]) /\ ~vals[i].isnum

RECURSIVE KeyLoop_nocomma(_, _, _, _)
\* A key loop that writes no comma after the value of a single dimension.
KeyLoop_nocomma(key, i, n, vals) ==
    IF i > n THEN key
    ELSE KeyLoop_nocomma(key \o "'" \o FormatVal(vals[i]) \o "'"
                             \o (IF i # n THEN ", " ELSE ""),
                         i + 1, n, vals)

RECURSIVE KeyLoop(_, _, _, _)
\* Lines 99-111: the loop of set_frame over the slider_ids.length dimensions.
KeyLoop(key, i, n, vals) ==
    IF i > n THEN key
    ELSE KeyLoop(key \o "'" \o FormatVal(vals[i]) \o "'"
                     \o (IF i # n THEN ", " ELSE IF n = 1 THEN "," ELSE ""),
                 i + 1, n, vals)

\* Lines 98-112: the key set_frame builds from current_vals.
BuildKey(vals, n) == KeyLoop("(", 1, n, vals) \o ")"

\* km[key] of a JavaScript object: undefined for a key it does not have.
Lookup(km, key) == IF key \in DOMAIN km THEN km[key] ELSE undefined

RECURSIVE SortedKeys(_)
\* Object.keys of an object with integer-like keys: ascending order.
SortedKeys(S) ==
    IF S = {} THEN <<>>
    ELSE LET m == CHOOSE x \in S : \A y \in S : x <= y
         IN <<m>> \o SortedKeys(S \ {m})


\* Number-to-string conversion of "... update(" + current + ")".
IdxStr(current) == IF current = undefined THEN "undefined" ELSE IntStr(current)

\* ------------------------------------------------------------------ state
VARIABLES
    template,       \* "base" (part_000) or "nbagg" (the extending template)
    mode,           \* the constructor's mode argument
    cached,         \* the constructor's cached argument
    load_json,      \* the constructor's load_json argument
    slider_ids,     \* widget_ids, one per dimension
    valMap,         \* per dimension, the values a slider or dropdown offers
    anim,           \* TRUE once create_widget's timeout has built the widget
    keyMap,         \* this.keyMap: stringified value tuple -> frame index
    frames,         \* this.frames: frame index -> frame data
    cache,          \* this.cache: frame index -> DOM fragment
    current_frame,  \* this.current_frame
    current_vals,   \* this.current_vals (the dim_vals array)
    kernel,         \* execute requests whose output has not come back
    sent,           \* kernel.execute calls made so far
    calls,          \* init_slider plus set_frame invocations so far
    divs,           \* <div> elements created so far
    asked,          \* frame indices asked for display so far
    last,           \* the handler that ran last and what it resolved
    objects,        \* HoloViews objects created so far (image is object 1)
    id,             \* the integer ID stored in each object, None without one
    Store,          \* holoviews.core.options.Store: ID -> customizations
    contexts,       \* the StoreOptions.options with-blocks open, innermost last
    rendered,       \* what the last call of renderer drew
    bound,          \* the options each object was created with
    left,           \* the with-block that ended last
    step,           \* the customization made last
    delay,          \* the template's delay, in clock ticks
    throttle,       \* the template's throttle, in clock ticks
    value,          \* the value option of the slider of dimension 0
    now,            \* the clock
    timers,         \* setTimeout calls that have not fired
    nseq,           \* setTimeout calls made so far
    throttled,      \* the state of the throttled slide handler
    plays,          \* the playbacks started, with the steps each has taken
    slides,         \* slide events of the user so far
    fired           \* what the last timeout or slide event did

config == <<template, mode, cached, load_json, slider_ids, valMap>>
vars == <<template, mode, cached, load_json, slider_ids, valMap, anim, keyMap,
          frames, cache, current_frame, current_vals, kernel, sent, calls, divs,
          asked, last, objects, id, Store, contexts, rendered, bound, left,
          step, delay, throttle, value, now, timers, nseq, throttled, plays,
          slides, fired>>
play_vars == <<delay, throttle, value, now, timers, nseq, throttled, plays,
               slides, fired>>
options_vars == <<objects, id, Store, contexts, rendered, bound, left, step>>
widget_vars == <<template, mode, cached, load_json, slider_ids, valMap, anim,
                 keyMap, frames, cache, current_frame, current_vals, kernel,
                 sent, calls, divs, asked, last>>

\* The id the template is rendered with.
WidgetId == "w1"
fig_id == "fig_" \o WidgetId
img_id == "_anim_img" \o WidgetId
\* The template's server variable.
Server == "http://server"

\* The widget object, handed from method to method.
This == [keyMap |-> keyMap, frames |-> frames, cache |-> cache,
         current_frame |-> current_frame, current_vals |-> current_vals,
         kernel |-> kernel, sent |-> sent, calls |-> calls, divs |-> divs]

NoData == [idx |-> undefined, ver |-> 0, parsed |-> FALSE]
\* What the kernel renders for frame idx; ver tells the renderings apart
\* (0 is the frame the template embedded in the page).
Frame(idx, ver) == [idx |-> idx, ver |-> ver, parsed |-> FALSE]

\* Lines 79-81: $('<div />').appendTo("#" + img_id).hide(), then
\* attr("id", cache_id).  fills counts the populate_cache calls on it.
NewDiv(w, i) ==
    [id |-> img_id \o "_" \o IntStr(i), div |-> w.divs + 1,
     visible |-> FALSE, kind |-> "empty", data |-> NoData, url |-> "",
     fills |-> 0]

\* this.frames[idx]; reading a key frames lacks gives undefined, and
\* html(undefined) writes nothing.
FrameAt(w, idx) == IF idx \in DOMAIN w.frames THEN w.frames[idx] ELSE NoData

\* populate_cache of the base template.  this.embed is never assigned, so
\* the branch that deletes this.frames[idx] is not taken.
populate_cache_base(w, idx) ==
    IF load_json
    THEN [w EXCEPT !.cache[idx].kind = "load",
                   !.cache[idx].url = Server \o "/" \o fig_id \o "/" \o IntStr(idx),
                   !.cache[idx].fills = @ + 1]
    ELSE [w EXCEPT !.cache[idx].kind = "html",
                   !.cache[idx].data = FrameAt(w, idx),
                   !.cache[idx].fills = @ + 1]

\* populate_cache of the extending template.
populate_cache_nbagg(w, idx) ==
    IF load_json
    THEN [w EXCEPT !.cache[idx].kind = IF mode = "d3" THEN "getJSON" ELSE "load",
                   !.cache[idx].url = Server \o "/" \o fig_id \o "/" \o IntStr(idx),
                   !.cache[idx].fills = @ + 1]
    ELSE [w EXCEPT !.cache[idx].kind = IF mode = "d3" THEN "draw_figure" ELSE "html",
                   !.cache[idx].data = FrameAt(w, idx),
                   !.cache[idx].fills = @ + 1]

populate_cache(w, idx) ==
    IF template = "base" THEN populate_cache_base(w, idx)
    ELSE populate_cache_nbagg(w, idx)

\* A cache_frame that builds the fragment anew on every pass.
cache_frame_rebuild(w, i) ==
    populate_cache([w EXCEPT !.cache = (i :> NewDiv(w, i)) @@ w.cache,
                             !.divs = w.divs + 1], i)

\* A cache_frame that writes the frame into a fragment that exists already.
cache_frame_refill(w, i) ==
    IF ~(i \in DOMAIN w.cache)
    THEN populate_cache([w EXCEPT !.cache = (i :> NewDiv(w, i)) @@ w.cache,
                                  !.divs = w.divs + 1], i)
    ELSE populate_cache(w, i)

\* Lines 78-83: the body of update_cache's loop for the key i.
cache_frame(w, i) ==
    IF ~(i \in DOMAIN w.cache)
    THEN populate_cache([w EXCEPT !.cache = (i :> NewDiv(w, i)) @@ w.cache,
                                  !.divs = w.divs + 1], i)
    ELSE w

RECURSIVE update_cache_loop_plain(_, _, _)
\* An update_cache loop that takes the counter itself for the frame index.
update_cache_loop_plain(w, i, frame_len) ==
    IF ~(i < frame_len) THEN w
    ELSE update_cache_loop_plain(cache_frame(w, i), i + 1, frame_len)

RECURSIVE update_cache_loop(_, _, _)
\* Lines 74-84.  The loop variable is overwritten with the i-th key of
\* frames and then incremented from that key.
update_cache_loop(w, i, frame_len) ==
    IF ~(i < frame_len) THEN w
    ELSE LET k == IF ~load_json THEN SortedKeys(DOMAIN w.frames)[i + 1] ELSE i
         IN update_cache_loop(cache_frame(w, k), k + 1, frame_len)

\* An update_cache that takes its length from the frame map in every case.
update_cache_framelen(w) ==
    update_cache_loop(w, 0, Cardinality(DOMAIN w.frames))

\* Lines 68-85.
update_cache(w) ==
    update_cache_loop(w, 0, IF load_json THEN Cardinality(DOMAIN w.keyMap)
                            ELSE Cardinality(DOMAIN w.frames))

\* An update that shows the frame without hiding the others.
update_nohide(w, current) ==
    IF current \in DOMAIN w.cache
    THEN [w EXCEPT !.cache[current].visible = TRUE]
    ELSE w

\* An update whose hide loop runs before the membership test.
update_hidefirst(w, current) ==
    LET hidden == [i \in DOMAIN w.cache |-> [w.cache[i] EXCEPT !.visible = FALSE]]
    IN IF current \in DOMAIN w.cache
       THEN [w EXCEPT !.cache = [hidden EXCEPT ![current].visible = TRUE]]
       ELSE [w EXCEPT !.cache = hidden]

\* Lines 87-94.
update(w, current) ==
    IF current \in DOMAIN w.cache
    THEN [w EXCEPT !.cache = [i \in DOMAIN w.cache |->
                                 [w.cache[i] EXCEPT !.visible = (i = current)]]]
    ELSE w

\* Line 59 and the string of line 60.
Cmd(current) ==
    "import holoviews;" \o "holoviews.plotting.widgets.NdWidget.widgets['"
        \o WidgetId \o "'].update(" \o IdxStr(current) \o ")"

\* A kernel_execute that sends the command a second time.
kernel_execute_retry(w, current) ==
    [w EXCEPT !.sent = w.sent + 2,
              !.kernel = w.kernel \cup
                  {[rid |-> w.sent + 1, current |-> current, cmd |-> Cmd(current)],
                   [rid |-> w.sent + 2, current |-> current, cmd |-> Cmd(current)]}]

\* Lines 57-60: kernel.execute with the callback bound to current.
kernel_execute(w, current) ==
    [w EXCEPT !.sent = w.sent + 1,
              !.kernel = w.kernel \cup
                  {[rid |-> w.sent + 1, current |-> current, cmd |-> Cmd(current)]}]

\* A dynamic_update that asks the kernel whatever the cache holds.
dynamic_update_always(w, current) == kernel_execute(w, current)

\* A dynamic_update that never asks the kernel.
dynamic_update_never(w, current) == update(w, current)

\* Lines 56-63.
dynamic_update_base(w, current) ==
    IF ~(current \in DOMAIN w.cache) THEN kernel_execute(w, current)
    ELSE update(w, current)

\* A dynamic_update of the extending template that consults the cache in
\* every mode.
dynamic_update_cachefirst(w, current) ==
    IF ~(current \in DOMAIN w.cache) THEN kernel_execute(w, current)
    ELSE update(w, current)

\* Lines 149-156 of the extending template.
dynamic_update_nbagg(w, current) ==
    IF mode = "nbagg" \/ ~(current \in DOMAIN w.cache)
    THEN kernel_execute(w, current)
    ELSE update(w, current)

dynamic_update(w, current) ==
    IF template = "base" THEN dynamic_update_base(w, current)
    ELSE dynamic_update_nbagg(w, current)

\* A set_frame that goes to the kernel in cached mode too.
set_frame_live(w, dim_val, dim_idx) ==
    LET vals == [w.current_vals EXCEPT ![dim_idx + 1] = dim_val]
        key == BuildKey(vals, Len(slider_ids))
        current == Lookup(w.keyMap, key)
        w1 == [w EXCEPT !.current_vals = vals, !.current_frame = current,
                        !.calls = w.calls + 1]
    IN dynamic_update(w1, current)

\* A set_frame that remembers a key it did not find.
set_frame_memo(w, dim_val, dim_idx) ==
    LET vals == [w.current_vals EXCEPT ![dim_idx + 1] = dim_val]
        key == BuildKey(vals, Len(slider_ids))
        current == Lookup(w.keyMap, key)
        w1 == [w EXCEPT !.current_vals = vals, !.current_frame = current,
                        !.calls = w.calls + 1,
                        !.keyMap = IF key \in DOMAIN w.keyMap THEN w.keyMap
                                   ELSE (key :> 0) @@ w.keyMap]
    IN IF cached THEN update(w1, current) ELSE dynamic_update(w1, current)

\* A set_frame that takes every other dimension at its first value.
set_frame_reset(w, dim_val, dim_idx) ==
    LET vals == [j \in DOMAIN w.current_vals |->
                    IF j = dim_idx + 1 THEN dim_val ELSE valMap[j][1]]
        key == BuildKey(vals, Len(slider_ids))
        current == Lookup(w.keyMap, key)
        w1 == [w EXCEPT !.current_vals = vals, !.current_frame = current,
                        !.calls = w.calls + 1]
    IN IF cached THEN update(w1, current) ELSE dynamic_update(w1, current)

\* Lines 96-120.  When the key loop throws, the assignment of line 97 is
\* all the call has done.
set_frame(w, dim_val, dim_idx) ==
    LET vals == [w.current_vals EXCEPT ![dim_idx + 1] = dim_val]
        key == BuildKey(vals, Len(slider_ids))
        current == Lookup(w.keyMap, key)
        w1 == [w EXCEPT !.current_vals = vals, !.current_frame = current,
                        !.calls = w.calls + 1]
    IN IF KeyThrows(vals, Len(slider_ids))
       THEN [w EXCEPT !.current_vals = vals, !.calls = w.calls + 1]
       ELSE IF cached THEN update(w1, current) ELSE dynamic_update(w1, current)

\* An init_slider that builds and shows the cache whatever cached says.
init_slider_eager(w, init_val) ==
    update(update_cache([w EXCEPT !.calls = w.calls + 1]), 0)

\* Lines 21-28.
init_slider_base(w, init_val) ==
    LET w1 == [w EXCEPT !.calls = w.calls + 1]
    IN IF cached THEN update(update_cache(w1), 0) ELSE dynamic_update(w1, 0)

\* Lines 92-103 of the extending template.
init_slider_nbagg(w, init_val) ==
    LET w1 == [w EXCEPT !.calls = w.calls + 1]
    IN IF mode = "nbagg" THEN set_frame(update(update_cache(w1), 0), init_val, 0)
       ELSE IF cached THEN update(update_cache(w1), 0)
       ELSE dynamic_update(w1, 0)

init_slider(w, init_val) ==
    IF template = "base" THEN init_slider_base(w, init_val)
    ELSE init_slider_nbagg(w, init_val)

\* Lines 3-18: the constructor.
HoloViewsWidget(w) ==
    init_slider([w EXCEPT !.current_frame = 0, !.cache = <<>>], w.current_vals[1])

\* JSON.parse(data)[0] of the d3 branch.
JSONParse0(data) == [data EXCEPT !.parsed = TRUE]

\* msg.content.data['text/plain'].slice(1, -1): the text without its quotes.
Slice(text) == SubSeq(text, 2, Len(text) - 1)[1]

\* A callback that stores the data under the index the widget is at when
\* the reply arrives.
callback_base_latest(w, current, msg) ==
    IF ~msg.hasdata THEN w
    ELSE LET data == Slice(msg.text)
         IN update(update_cache([w EXCEPT !.frames = (w.current_frame :> data)
                                                          @@ w.frames]),
                   w.current_frame)

\* Lines 48-55: the iopub output callback of the base template.  An error
\* output carries no content.data, and reading it throws before anything is
\* assigned.
callback_base(w, current, msg) ==
    IF ~msg.hasdata THEN w
    ELSE LET data == Slice(msg.text)
         IN update(update_cache([w EXCEPT !.frames = (current :> data) @@ w.frames]),
                   current)

\* A callback of the extending template that does not look at the mode.
callback_nbagg_anymode(w, current, msg) ==
    IF ~(current \in DOMAIN w.cache)
    THEN IF ~msg.hasdata THEN w
         ELSE LET data0 == Slice(msg.text)
                  data == IF mode = "d3" THEN JSONParse0(data0) ELSE data0
              IN update(update_cache(
                            [w EXCEPT !.frames = (current :> data) @@ w.frames]),
                        current)
    ELSE update(w, current)

\* Lines 134-148 of the extending template.
callback_nbagg(w, current, msg) ==
    IF ~(mode = "nbagg")
    THEN IF ~(current \in DOMAIN w.cache)
         THEN IF ~msg.hasdata THEN w
              ELSE LET data0 == Slice(msg.text)
                       data == IF mode = "d3" THEN JSONParse0(data0) ELSE data0
                   IN update(update_cache(
                                 [w EXCEPT !.frames = (current :> data) @@ w.frames]),
                             current)
         ELSE update(w, current)
    ELSE w

callback(w, current, msg) ==
    IF template = "base" THEN callback_base(w, current, msg)
    ELSE callback_nbagg(w, current, msg)

\* The output message the kernel publishes for a request: the repr of the
\* string NdWidget.update(current) returns, numbered in order of arrival;
\* update(undefined) is a NameError, whose output has no content.data.
Output(w, r) ==
    IF r.current = undefined
    THEN [hasdata |-> FALSE, text |-> <<>>]
    ELSE [hasdata |-> TRUE,
          text |-> <<"'", Frame(r.current, w.sent - Cardinality(w.kernel) + 1), "'">>]

\* ------------------------------------------------------------ the pages
\* One key dimension: a slider over three numbers.
Page1 ==
    [slider_ids |-> <<"_anim_widgetw1_X">>,
     valMap |-> << <<Num(10), Num(5), Num(20)>> >>,
     keyMap |-> ("('1.0',)" :> 0) @@ ("('0.5000000000',)" :> 1) @@ ("('2.0',)" :> 2)]

\* Two key dimensions, a slider and a dropdown; the combination (0.5, 'b')
\* has no frame.
Page2 ==
    [slider_ids |-> <<"_anim_widgetw1_X", "_anim_widgetw1_Y">>,
     valMap |-> << <<Num(10), Num(5)>>, <<Str("a"), Str("b")>> >>,
     keyMap |-> ("('1.0', 'a')" :> 0) @@ ("('1.0', 'b')" :> 1)
                @@ ("('0.5000000000', 'a')" :> 2)]

\* One key dimension with string values, a dropdown; one of the values
\* reads as a number.
Page3 ==
    [slider_ids |-> <<"_anim_widgetw1_Z">>,
     valMap |-> << <<Str("a"), Str("7")>> >>,
     keyMap |-> ("('a',)" :> 0) @@ ("('7',)" :> 1)]

Pages == {Page1, Page2, Page3}

\* widget_data['type'] of each dimension of the pages.
widget_type ==
    ("_anim_widgetw1_X" :> "slider") @@ ("_anim_widgetw1_Y" :> "dropdown")
        @@ ("_anim_widgetw1_Z" :> "dropdown")

NoLast == [op |-> "none", sf |-> FALSE, current |-> undefined, hit |-> FALSE,
           sent |-> 0, again |-> FALSE, ver |-> 0, threw |-> FALSE,
           widget |-> ""]

\* ---------------------------------------------------------------- options
\* The option system of the Options tutorial: an object carries an integer
\* ID, the Store keeps the customizations bound to each ID, and a
\* customization stored for an object overrides the class default.
None == 0

OptNames == {"cmap", "yaxis"}

Unset == "unset"

OptValues == [cmap |-> {"Greens", "Reds"}, yaxis |-> {"bare"}]

ClassDefaults == [cmap |-> "gray", yaxis |-> "left"]

NoOptions == [n \in OptNames |-> Unset]

\* The sets of options one step can give: each option named or not.
Customizations ==
    {c \in [OptNames -> {"Greens", "Reds", "bare", Unset}] :
        \A n \in OptNames : c[n] \in OptValues[n] \cup {Unset}}

\* The customizations stored for an object: those of its ID, none without.
custom_options(I, S, obj) == IF I[obj] = None THEN NoOptions ELSE S[I[obj]]

merge_options_replace(old, new) == new

\* "the old customizations will be copied, and then the new customizations
\* applied": an option the new step names takes its value, any other keeps
\* the old one.
merge_options(old, new) ==
    [n \in OptNames |-> IF new[n] # Unset THEN new[n] ELSE old[n]]

\* The options a plot is drawn with: a stored customization overrides the
\* class default.
lookup_options(tree) ==
    [n \in OptNames |-> IF tree[n] # Unset THEN tree[n] ELSE ClassDefaults[n]]

\* What renderer(obj) draws with.
renderer(I, S, obj) == lookup_options(custom_options(I, S, obj))

\* A new ID is assigned to obj and the Store gets the entry of that ID: the
\* customizations obj had, with the given ones applied.
set_options(st, obj, options) ==
    LET new_id == Len(st.Store) + 1
    IN [id |-> [st.id EXCEPT ![obj] = new_id],
        Store |-> Append(st.Store,
                         merge_options(custom_options(st.id, st.Store, obj),
                                       options))]

restore_state_none(I, obj, state) == I

\* At the end of the with-block the object gets back the ID it had.
restore_state(I, obj, state) == [I EXCEPT ![obj] = state]

NoRender == [obj |-> None, info |-> NoOptions, within |-> FALSE]

NoContext == [obj |-> None, state |-> None, options |-> NoOptions,
              before |-> NoOptions, info |-> NoOptions]

NoStep == [op |-> "none", obj |-> None, new |-> None, options |-> NoOptions,
           old |-> NoOptions]

\* The session before any customization: the one object image, no ID, an
\* empty Store.
StoreInit ==
    /\ objects = 1
    /\ id = [o \in 1..MaxObjs |-> None]
    /\ Store = <<>>
    /\ contexts = <<>>
    /\ rendered = NoRender
    /\ bound = [o \in 1..MaxObjs |-> lookup_options(NoOptions)]
    /\ left = NoContext
    /\ step = NoStep

\* ----------------------------------------------------------------- slider
\* The time _.throttle starts from: previous = 0, the epoch, long before any
\* event of the page.
LongAgo == -1000

NoFired == [kind |-> "none", play |-> 0, i |-> 0, arg |-> 0, ran |-> FALSE,
            threw |-> FALSE]

\* Lines 229-239: the slider as created, value 0, its slide handler never
\* called, no timeout pending.
SliderInit ==
    /\ value = 0
    /\ now = 0
    /\ timers = {}
    /\ nseq = 0
    /\ throttled = [previous |-> LongAgo, timeout |-> FALSE, args |-> 0]
    /\ plays = <<>>
    /\ slides = 0
    /\ fired = NoFired

\* ----------------------------------------------------------------- widget
\* The page as rendered, before create_widget's timeout has run.
Init ==
    /\ template \in {"base", "nbagg"}
    /\ mode \in (IF template = "base" THEN {"default"} ELSE {"default", "d3", "nbagg"})
    /\ cached \in BOOLEAN
    /\ load_json \in BOOLEAN
    /\ \E p \in Pages :
          /\ slider_ids = p.slider_ids
          /\ valMap = p.valMap
          /\ keyMap = p.keyMap
          /\ current_vals = [d \in 1..Len(p.valMap) |-> p.valMap[d][1]]
    /\ \E S \in SUBSET (0..(MaxFrames - 1)) : frames = [i \in S |-> Frame(i, 0)]
    /\ anim = FALSE
    /\ cache = <<>>
    /\ current_frame = undefined
    /\ kernel = {}
    /\ sent = 0
    /\ calls = 0
    /\ divs = 0
    /\ asked = {}
    /\ last = NoLast
    /\ StoreInit
    /\ delay = 1
    /\ throttle = 0
    /\ SliderInit

\* The fields of the widget object after a method has run.
Install(w) ==
    /\ keyMap' = w.keyMap
    /\ frames' = w.frames
    /\ cache' = w.cache
    /\ current_frame' = w.current_frame
    /\ current_vals' = w.current_vals
    /\ kernel' = w.kernel
    /\ sent' = w.sent
    /\ calls' = w.calls
    /\ divs' = w.divs

\* Lines 315-320: the timeout of create_widget builds the widget.  Of the
\* handlers only set_frame writes current_frame and none but update_cache
\* adds to the cache, so the record of the step is read off the new state.
create_widget ==
    /\ ~anim
    /\ anim' = TRUE
    /\ LET w == HoloViewsWidget(This)
           sf == w.calls = calls + 2
       IN /\ Install(w)
          /\ asked' = asked \cup {0, w.current_frame}
          /\ last' = [NoLast EXCEPT !.op = "create_widget", !.sf = sf,
                                    !.current = w.current_frame,
                                    !.hit = w.current_frame \in DOMAIN w.cache,
                                    !.sent = w.sent - sent]
    /\ UNCHANGED <<config, options_vars, play_vars>>

\* A slide or change event on dimension dim_idx calls set_frame (lines
\* 234-238 and 288-293).
SetFrame(dim_val, dim_idx) ==
    /\ anim
    /\ calls < MaxCalls
    /\ LET w == set_frame(This, dim_val, dim_idx)
           threw == KeyThrows(w.current_vals, Len(slider_ids))
       IN /\ Install(w)
          /\ asked' = IF threw THEN asked ELSE asked \cup {w.current_frame}
          /\ last' = IF threw
                     THEN [NoLast EXCEPT !.op = "set_frame", !.threw = TRUE]
                     ELSE [NoLast EXCEPT !.op = "set_frame", !.sf = TRUE,
                                         !.current = w.current_frame,
                                         !.hit = w.current_frame \in DOMAIN cache,
                                         !.sent = w.sent - sent]
    /\ UNCHANGED <<config, anim, options_vars, play_vars>>

\* A slide event (lines 234-238) or a change event (lines 288-293) handled
\* before create_widget's timeout has run.  anim<id> is assigned at line 317
\* without a declaration, so until then it is an unresolvable name: line 237
\* of the slide handler and the test of line 290 of the change handler both
\* end in a ReferenceError, and set_frame is not called.
EarlyEvent(dim_idx) ==
    /\ ~anim
    /\ last' = [NoLast EXCEPT !.op = "event", !.threw = TRUE,
                              !.widget = widget_type[slider_ids[dim_idx + 1]]]
    /\ UNCHANGED <<config, anim, keyMap, frames, cache, current_frame,
                   current_vals, kernel, sent, calls, divs, asked, options_vars,
                   play_vars>>

\* The output of request r arrives and its callback runs.
KernelReply(r) ==
    /\ r \in kernel
    /\ LET msg == Output(This, r)
           w == callback([This EXCEPT !.kernel = kernel \ {r}], r.current, msg)
       IN /\ Install(w)
          /\ last' = [NoLast EXCEPT !.op = "reply", !.current = r.current,
                                    !.hit = r.current \in DOMAIN cache,
                                    !.sent = w.sent - sent,
                                    !.again = /\ r.current \in DOMAIN frames
                                              /\ frames[r.current].ver > 0,
                                    !.ver = sent - Cardinality(kernel) + 1]
    /\ UNCHANGED <<config, anim, asked, options_vars, play_vars>>

Next ==
    \/ create_widget
    \/ \E d \in 1..Len(slider_ids) : \E v \in 1..Len(valMap[d]) :
          SetFrame(valMap[d][v], d - 1)
    \/ \E d \in 1..Len(slider_ids) : EarlyEvent(d - 1)
    \/ \E r \in kernel : KernelReply(r)

Spec == Init /\ [][Next]_vars

\* -------------------------------------------------------- options session
\* The options session alone: the page carries a widget that is never built.
InitOptions ==
    /\ template = "base"
    /\ mode = "default"
    /\ cached = TRUE
    /\ load_json = FALSE
    /\ slider_ids = Page1.slider_ids
    /\ valMap = Page1.valMap
    /\ keyMap = Page1.keyMap
    /\ current_vals = [d \in 1..Len(Page1.valMap) |-> Page1.valMap[d][1]]
    /\ frames = <<>>
    /\ anim = FALSE
    /\ cache = <<>>
    /\ current_frame = undefined
    /\ kernel = {}
    /\ sent = 0
    /\ calls = 0
    /\ divs = 0
    /\ asked = {}
    /\ last = NoLast
    /\ StoreInit
    /\ delay = 1
    /\ throttle = 0
    /\ SliderInit

\* new = obj(style=..., plot=...): a new copy of the object is created, which
\* keeps the ID of obj until the given options are bound to it.
Customize(obj, options) ==
    /\ obj \in 1..objects
    /\ objects < MaxObjs
    /\ Len(Store) < MaxIds
    /\ LET new == objects + 1
           clone == [id |-> [id EXCEPT ![new] = id[obj]], Store |-> Store]
           st == set_options(clone, new, options)
       IN /\ objects' = new
          /\ id' = st.id
          /\ Store' = st.Store
          /\ bound' = [bound EXCEPT ![new] = renderer(st.id, st.Store, new)]
          /\ step' = [op |-> "customize", obj |-> obj, new |-> new,
                      options |-> options, old |-> renderer(id, Store, obj)]
    /\ UNCHANGED <<contexts, rendered, left, widget_vars, play_vars>>

\* with StoreOptions.options(obj, options=...): the object is temporarily
\* assigned a new ID with the given customizations applied.
OptionsEnter(obj, options) ==
    /\ obj \in 1..objects
    /\ Len(contexts) < MaxDepth
    /\ Len(Store) < MaxIds
    /\ LET st == set_options([id |-> id, Store |-> Store], obj, options)
       IN /\ id' = st.id
          /\ Store' = st.Store
    /\ contexts' = Append(contexts, [obj |-> obj, state |-> id[obj],
                                     options |-> options,
                                     before |-> renderer(id, Store, obj),
                                     info |-> NoOptions])
    /\ step' = [NoStep EXCEPT !.op = "enter", !.obj = obj]
    /\ UNCHANGED <<objects, rendered, bound, left, widget_vars, play_vars>>

\* The innermost with-block ends.
OptionsExit ==
    /\ contexts # <<>>
    /\ LET c == contexts[Len(contexts)]
       IN /\ id' = restore_state(id, c.obj, c.state)
          /\ left' = c
          /\ step' = [NoStep EXCEPT !.op = "exit", !.obj = c.obj]
    /\ contexts' = SubSeq(contexts, 1, Len(contexts) - 1)
    /\ UNCHANGED <<objects, Store, rendered, bound, widget_vars, play_vars>>

\* The innermost open with-block of obj, 0 when it is in none.
innermost(obj) ==
    LET open == {i \in 1..Len(contexts) : contexts[i].obj = obj}
    IN IF open = {} THEN 0 ELSE CHOOSE i \in open : \A j \in open : j <= i

\* data, info = renderer(obj)
Render(obj) ==
    /\ obj \in 1..objects
    /\ LET info == renderer(id, Store, obj)
           n == innermost(obj)
           within == n > 0
       IN /\ rendered' = [obj |-> obj, info |-> info, within |-> within]
          /\ contexts' = IF within
                         THEN [contexts EXCEPT ![n].info = info]
                         ELSE contexts
          /\ step' = [NoStep EXCEPT !.op = "render", !.obj = obj]
    /\ UNCHANGED <<objects, id, Store, bound, left, widget_vars, play_vars>>

NextOptions ==
    \/ \E obj \in 1..MaxObjs : \E options \in Customizations \ {NoOptions} :
          Customize(obj, options)
    \/ \E obj \in 1..MaxObjs : \E options \in Customizations \ {NoOptions} :
          OptionsEnter(obj, options)
    \/ OptionsExit
    \/ \E obj \in 1..MaxObjs : Render(obj)

SpecOptions == InitOptions /\ [][NextOptions]_vars

\* ----------------------------------------------------------------- playback
\* The slider of dimension 0, its key presses and the timeouts they set.
\* Line 232: the max option of the slider; min is 0 (line 231).
SliderMax == Len(valMap[1]) - 1

\* Lines 242-252: P or p.  One timeout per position from start to stop; the
\* delay of the one for position i is i times the template's delay.
keypress_forward(start, stop, t, n, p) ==
    {[kind |-> "step", at |-> t + i * delay, seq |-> n + (i - start) + 1,
      i |-> i, play |-> p, k |-> i - start] : i \in start..stop}

\* Lines 255-267: R or r.  One timeout per position from start down to
\* stop; the delay of the count-th one is count times the template's delay.
keypress_reverse(start, stop, t, n, p) ==
    {[kind |-> "step", at |-> t + (start - i) * delay,
      seq |-> n + (start - i) + 1,
      i |-> i, play |-> p, k |-> start - i] : i \in stop..start}

\* A timer queue that runs the timeout set last first.
LastTimer(tm) ==
    CHOOSE t \in tm : \A u \in tm : t.seq >= u.seq

\* setTimeout: of the timeouts pending the one due first runs first, and of
\* two due together the one set first.
NextTimer(tm) ==
    CHOOSE t \in tm :
        \A u \in tm : t.at < u.at \/ (t.at = u.at /\ t.seq <= u.seq)

\* Lines 235-237, the function _.throttle wraps.  Before anim<id> is
\* assigned line 237 throws a ReferenceError.
slide(w, val) ==
    IF ~anim THEN w ELSE set_frame(w, valMap[1][val + 1], 0)

\* _.throttle(func, wait) of line 234, called with arg at time t: func runs
\* at once when wait has passed since it ran last; otherwise the call is
\* kept for one trailing run, which takes the arguments of the latest call.
throttle_call(th, tm, arg, t, n) ==
    LET remaining == throttle - (t - th.previous)
    IN IF remaining <= 0
       THEN [th |-> [previous |-> t, timeout |-> FALSE, args |-> arg],
             timers |-> {x \in tm : x.kind # "later"},
             nseq |-> n, run |-> TRUE]
       ELSE IF ~th.timeout
       THEN [th |-> [th EXCEPT !.timeout = TRUE, !.args = arg],
             timers |-> tm \cup {[kind |-> "later", at |-> t + remaining,
                                  seq |-> n + 1, i |-> 0, play |-> 0, k |-> 0]},
             nseq |-> n + 1, run |-> FALSE]
       ELSE [th |-> [th EXCEPT !.args = arg],
             timers |-> tm, nseq |-> n, run |-> FALSE]

\* What the record of the last handler becomes when the slide function ran.
SlideRecord(w, ran) ==
    IF ran /\ anim
    THEN [NoLast EXCEPT !.op = "set_frame", !.sf = TRUE,
                        !.current = w.current_frame,
                        !.hit = w.current_frame \in DOMAIN cache,
                        !.sent = w.sent - sent]
    ELSE last

\* The page of the playback runs: one slider, a cached widget with a frame
\* for every position.
InitPlay ==
    /\ template = "base"
    /\ mode = "default"
    /\ cached = TRUE
    /\ load_json = FALSE
    /\ slider_ids = Page1.slider_ids
    /\ valMap = Page1.valMap
    /\ keyMap = Page1.keyMap
    /\ current_vals = [d \in 1..Len(Page1.valMap) |-> Page1.valMap[d][1]]
    /\ frames = [i \in 0..2 |-> Frame(i, 0)]
    /\ anim = FALSE
    /\ cache = <<>>
    /\ current_frame = undefined
    /\ kernel = {}
    /\ sent = 0
    /\ calls = 0
    /\ divs = 0
    /\ asked = {}
    /\ last = NoLast
    /\ StoreInit
    /\ delay \in {0, 1, 2}
    /\ throttle \in {0, 3}
    /\ SliderInit

\* Lines 240-269: a key press on the slider.
KeyPress(which) ==
    /\ Len(plays) < MaxPresses
    /\ LET start == value
           forward == which \in {80, 112}
           stop == IF forward THEN SliderMax ELSE 0
           p == Len(plays) + 1
           new == IF forward THEN keypress_forward(start, stop, now, nseq, p)
                  ELSE keypress_reverse(start, stop, now, nseq, p)
       IN /\ timers' = timers \cup new
          /\ nseq' = nseq + Cardinality(new)
          /\ plays' = Append(plays, [forward |-> forward, start |-> start,
                                     stop |-> stop, pressed |-> now,
                                     done |-> <<>>])
    /\ fired' = NoFired
    /\ UNCHANGED <<widget_vars, options_vars, delay, throttle, value, now,
                   throttled, slides>>

\* The user drags the slider to position v: the slider takes the value and
\* calls its slide option.
Slide(v) ==
    /\ slides < MaxSlides
    /\ slides' = slides + 1
    /\ value' = v
    /\ LET c == throttle_call(throttled, timers, v, now, nseq)
           w == IF c.run THEN slide(This, v) ELSE This
       IN /\ throttled' = c.th
          /\ timers' = c.timers
          /\ nseq' = c.nseq
          /\ Install(w)
          /\ last' = SlideRecord(w, c.run)
          /\ asked' = IF c.run /\ anim THEN asked \cup {w.current_frame} ELSE asked
          /\ fired' = [NoFired EXCEPT !.kind = "slide", !.i = v, !.arg = v,
                                      !.ran = c.run, !.threw = c.run /\ ~anim]
    /\ UNCHANGED <<config, anim, options_vars, delay, throttle, now, plays>>

\* The timeout due first runs.  A step of a playback (lines 246-250 and
\* 261-265) sets the slider value and calls the slide option with it; the
\* trailing timeout of _.throttle runs the slide function with the arguments
\* kept.
Timeout ==
    /\ timers # {}
    /\ LET t == NextTimer(timers)
           t_now == IF t.at > now THEN t.at ELSE now
           rest == timers \ {t}
       IN /\ now' = t_now
          /\ IF t.kind = "step"
             THEN LET c == throttle_call(throttled, rest, t.i, t_now, nseq)
                      w == IF c.run THEN slide(This, t.i) ELSE This
                  IN /\ value' = t.i
                     /\ throttled' = c.th
                     /\ timers' = c.timers
                     /\ nseq' = c.nseq
                     /\ Install(w)
                     /\ last' = SlideRecord(w, c.run)
                     /\ asked' = IF c.run /\ anim THEN asked \cup {w.current_frame}
                                 ELSE asked
                     /\ plays' = [plays EXCEPT ![t.play].done = Append(@, t.i)]
                     /\ fired' = [kind |-> "step", play |-> t.play, i |-> t.i,
                                  arg |-> t.i, ran |-> c.run,
                                  threw |-> c.run /\ ~anim]
             ELSE LET w == slide(This, throttled.args)
                  IN /\ value' = value
                     /\ throttled' = [throttled EXCEPT !.previous = t_now,
                                                       !.timeout = FALSE]
                     /\ timers' = rest
                     /\ nseq' = nseq
                     /\ Install(w)
                     /\ last' = SlideRecord(w, TRUE)
                     /\ asked' = IF anim THEN asked \cup {w.current_frame} ELSE asked
                     /\ plays' = plays
                     /\ fired' = [NoFired EXCEPT !.kind = "later",
                                                 !.arg = throttled.args,
                                                 !.ran = TRUE, !.threw = ~anim]
    /\ UNCHANGED <<config, anim, options_vars, delay, throttle, slides>>

\* Time passes while no timeout is due.
Tick ==
    /\ now < MaxTime
    /\ \A t \in timers : t.at > now
    /\ now' = now + 1
    /\ UNCHANGED <<widget_vars, options_vars, delay, throttle, value, timers,
                   nseq, throttled, plays, slides, fired>>

NextPlay ==
    \/ create_widget
    \/ \E which \in {80, 112, 82, 114} : KeyPress(which)
    \/ \E v \in 0..SliderMax : Slide(v)
    \/ Timeout
    \/ Tick

SpecPlay == InitPlay /\ [][NextPlay]_vars

\* ------------------------------------------------------------------ claims
\* The key set_frame built last: it is built from current_vals as the call
\* left them.
CurrentKey == BuildKey(current_vals, Len(slider_ids))

Visible == {i \in DOMAIN cache : cache[i].visible}

\* The widget of the extending template in mode nbagg.
NbaggMode == template = "nbagg" /\ mode = "nbagg"

\* C1: in cached mode, after a set_frame whose key is a key of keyMap with
\* value c, c being in the cache, current_frame is c, cache[c] is visible
\* and every other cache entry is hidden.
C1_CachedSetFrameShows ==
    (anim /\ cached /\ last.sf /\ CurrentKey \in DOMAIN keyMap
          /\ keyMap[CurrentKey] \in DOMAIN cache)
        => /\ current_frame = keyMap[CurrentKey]
           /\ Visible = {keyMap[CurrentKey]}

C1_Witness ==
    /\ anim /\ cached /\ last.op = "set_frame"
    /\ CurrentKey \in DOMAIN keyMap
    /\ keyMap[CurrentKey] = 2
    /\ Cardinality(DOMAIN cache) >= 2
    /\ Visible = {2}

\* C2 as stated: whenever set_frame resolves to a frame index that is not in
\* the cache, that call sends exactly one kernel execute request for the
\* index, in cached mode as in dynamic mode.
C2_MissAlwaysRequests ==
    (last.sf /\ last.current # undefined /\ ~last.hit)
        => /\ last.sent = 1
           /\ \E r \in kernel : r.rid = sent /\ r.current = last.current

\* C2 amended: a set_frame that resolves to an index not in the cache sends
\* exactly one request for it when cached is false, and sends none and
\* changes no visibility when cached is true.
C2_MissRequestsUnlessCached ==
    (last.sf /\ last.current # undefined /\ ~last.hit)
        => IF cached
           THEN last.sent = 0 /\ sent = 0 /\ kernel = {}
           ELSE /\ last.sent = 1
                /\ \E r \in kernel : r.rid = sent /\ r.current = last.current

C2_Witness ==
    /\ ~cached /\ last.op = "set_frame" /\ ~last.hit
    /\ last.current = 1 /\ last.sent = 1
    /\ \E r \in kernel : r.rid = sent /\ r.current = 1

\* C3: the cache is never evicted: an index that is a key of cache stays a
\* key of cache, bound to the same DOM fragment, whatever handler runs.
C3_NeverEvicted ==
    [][\A i \in DOMAIN cache :
          /\ i \in DOMAIN cache'
          /\ cache'[i].div = cache[i].div
          /\ cache'[i].id = cache[i].id]_vars

C3_Witness ==
    /\ ~cached /\ last.op = "reply" /\ last.hit
    /\ Cardinality(DOMAIN cache) >= 2

\* C4 as stated: when a reply arrives for an index an earlier reply was
\* stored for, the cache holds and shows the data of the later reply.
C4_LastReplyWins ==
    (last.op = "reply" /\ last.again)
        => /\ last.current \in DOMAIN cache
           /\ cache[last.current].data.ver = last.ver
           /\ cache[last.current].visible

\* C4 amended: a reply for an index that is in the cache already does not
\* replace what the cache holds for it: the entry keeps the data it was
\* created with, and outside mode nbagg the callback puts that entry on
\* display.
C4_CachedDataKept ==
    [][\A r \in kernel :
          (kernel' = kernel \ {r} /\ sent' = sent /\ r.current \in DOMAIN cache)
              => /\ cache'[r.current].data = cache[r.current].data
                 /\ cache'[r.current].kind = cache[r.current].kind
                 /\ (~NbaggMode =>
                        {i \in DOMAIN cache' : cache'[i].visible} = {r.current})]_vars

C4_Witness ==
    /\ last.op = "reply" /\ last.again /\ last.hit
    /\ cache[last.current].data.ver > 0
    /\ cache[last.current].data.ver < last.ver
    /\ cache[last.current].visible

\* C5: a widget built with cached = true sends no kernel execute request,
\* in the base template and in the extending template with a mode other
\* than nbagg.
C5_CachedNeverRequests ==
    (cached /\ ~NbaggMode)
        => sent = 0 /\ kernel = {}

C5_Witness ==
    /\ cached /\ ~NbaggMode /\ calls = MaxCalls
    /\ last.op = "set_frame" /\ ~last.hit /\ last.current # undefined
    /\ sent = 0

\* C6: in dynamic mode (cached false, mode not nbagg) a dynamic_update for
\* an index that is in the cache sends nothing and shows that entry, and a
\* request is sent only for an index that is not in the cache.
C6_DynamicHitShows ==
    (~cached /\ ~NbaggMode /\ last.op \in {"set_frame", "create_widget"})
        => /\ last.hit => (last.sent = 0 /\ Visible = {last.current})
           /\ last.sent > 0 =>
                 /\ ~last.hit
                 /\ \E r \in kernel : r.rid = sent /\ r.current = last.current

C6_Witness ==
    /\ ~cached /\ ~NbaggMode /\ last.op = "set_frame" /\ last.hit
    /\ sent >= 2 /\ Visible = {last.current}

\* C7: requests are never re-sent: at most one per init_slider or set_frame
\* invocation and none by a reply; and a set_frame that runs while earlier
\* requests are outstanding is processed all the same: having built its
\* key it resolves current_frame and, on a miss in dynamic mode, sends its
\* own request.
C7_NoRetryNoBlock ==
    /\ sent <= calls
    /\ Cardinality(kernel) <= sent
    /\ last.op = "reply" => last.sent = 0
    /\ (last.sf /\ Cardinality(kernel) > last.sent)
          => /\ current_frame = Lookup(keyMap, CurrentKey)
             /\ (~cached /\ ~last.hit) => last.sent = 1
             /\ (~cached /\ last.hit /\ ~NbaggMode) => Visible = {current_frame}

C7_Witness ==
    /\ last.op = "set_frame" /\ last.sent = 1
    /\ Cardinality(kernel) >= 3 /\ sent = calls

\* C8 as stated: a cache entry exists only for an index that was asked for
\* display, by init_slider or by a set_frame that resolved to it.
C8_CacheOnlyAsked == DOMAIN cache \subseteq asked

\* The page embedded no frame: every frame held came from a kernel reply.
NoEmbeddedFrames == \A i \in DOMAIN frames : frames[i].ver > 0

\* C8 amended: in dynamic mode (cached false, mode not nbagg, load_json
\* false) with no frame embedded in the page a cache entry exists only for
\* an index that was asked for; a widget that runs update_cache at
\* construction (cached, or mode nbagg) creates entries up front: with
\* load_json it has an entry for every index 0..n-1 of keyMap from
\* construction on, asked for or not.
C8_LazyOnlyWhenDynamic ==
    /\ (~cached /\ ~NbaggMode /\ ~load_json /\ NoEmbeddedFrames)
          => DOMAIN cache \subseteq asked
    /\ (anim /\ load_json /\ (cached \/ NbaggMode))
          => DOMAIN cache = 0..(Cardinality(DOMAIN keyMap) - 1)

C8_Witness ==
    /\ ~cached /\ ~NbaggMode /\ ~load_json /\ NoEmbeddedFrames
    /\ Cardinality(DOMAIN cache) >= 2
    /\ asked # DOMAIN cache

\* C9 as stated: keyMap is filled as the widget is used, so that a key
\* set_frame has looked up is a key of keyMap afterwards.
C9_KeyMapGrowsOnUse == last.op = "set_frame" => CurrentKey \in DOMAIN keyMap

\* C9 amended: keyMap is complete when the constructor gets it and no
\* handler changes it: no entry is added and none is removed.
C9_KeyMapNeverChanges == [][keyMap' = keyMap]_vars

C9_Witness ==
    /\ last.op = "set_frame" /\ calls >= 3
    /\ CurrentKey \notin DOMAIN keyMap
    /\ Cardinality(DOMAIN keyMap) = 3

\* The command of line 59-60 for the widget id and an index.
CmdText(i) ==
    "import holoviews;holoviews.plotting.widgets.NdWidget.widgets['w1'].update("
        \o IdxStr(i) \o ")"

\* A step in which the output of request r is handled.
IsReply(r) == kernel' = kernel \ {r} /\ sent' = sent

\* C10 as stated: the command carries the widget id and the index, and a
\* reply changes neither frames nor the cache nor the visible frame.
C10_ReplyChangesNothing ==
    /\ [](\A r \in kernel : r.cmd = CmdText(r.current))
    /\ [][\A r \in kernel : IsReply(r) => (frames' = frames /\ cache' = cache)]_vars

\* C10 amended: the command carries the widget id and the index; a reply
\* changes nothing in mode nbagg or when it is an error output (the index
\* was undefined); otherwise, for an index not in the cache, its callback
\* stores the reply's data in frames under that index.
C10_ReplyStoresUnlessNbagg ==
    /\ [](\A r \in kernel : r.cmd = CmdText(r.current))
    /\ [][\A r \in kernel : IsReply(r) =>
            IF NbaggMode \/ r.current = undefined
            THEN frames' = frames /\ cache' = cache
            ELSE r.current \notin DOMAIN cache =>
                    /\ r.current \in DOMAIN frames'
                    /\ frames'[r.current].idx = r.current
                    /\ frames'[r.current].ver = sent - Cardinality(kernel) + 1]_vars

C10_Witness ==
    /\ last.op = "reply" /\ ~NbaggMode /\ ~last.hit
    /\ last.current \in DOMAIN cache
    /\ cache[last.current].data.ver = last.ver
    /\ Visible = {last.current}

\* C11: options given to StoreOptions.options(obj, options=...) apply only
\* within the with statement: a render of obj inside the block draws with
\* the options given, the end of the block gives obj back the options it had
\* before the block, and a render of obj outside every block draws with the
\* options obj was created with.
C11_OptionsScoped ==
    /\ (step.op = "render" /\ rendered.within) =>
          LET c == contexts[innermost(rendered.obj)]
          IN \A n \in OptNames :
                c.options[n] # Unset => rendered.info[n] = c.options[n]
    /\ step.op = "exit" => renderer(id, Store, left.obj) = left.before
    /\ (step.op = "render" /\ ~rendered.within) =>
          rendered.info = bound[rendered.obj]

C11_Witness ==
    /\ step.op = "render" /\ contexts = <<>>
    /\ rendered.obj = left.obj
    /\ left.options["cmap"] = "Reds" /\ left.info["cmap"] = "Reds"
    /\ left.before["cmap"] = "Greens"
    /\ rendered.info["cmap"] = "Greens"

\* C12: customizing an already customized object yields a new object whose
\* options are the old customizations overridden by the new ones: an option
\* named in the new step takes the new value, every option not named keeps
\* its previous value, and the options of the original object are unchanged.
C12_CustomizeLayers ==
    step.op = "customize" =>
        /\ step.new # step.obj
        /\ \A n \in OptNames :
              renderer(id, Store, step.new)[n] =
                 IF step.options[n] # Unset THEN step.options[n] ELSE step.old[n]
        /\ renderer(id, Store, step.obj) = step.old

C12_Witness ==
    /\ step.op = "customize" /\ id[step.obj] # None
    /\ step.old = [cmap |-> "Greens", yaxis |-> "bare"]
    /\ step.options = [cmap |-> "Reds", yaxis |-> Unset]
    /\ renderer(id, Store, step.new) = [cmap |-> "Reds", yaxis |-> "bare"]
    /\ renderer(id, Store, step.obj) = step.old

\* The handler that ran last called update_cache: init_slider of a cached
\* or nbagg-mode widget, or the callback of a reply that carried data (in
\* the extending template: outside mode nbagg, for an index not in the
\* cache).
RanUpdateCache ==
    \/ last.op = "create_widget" /\ (cached \/ NbaggMode)
    \/ /\ last.op = "reply" /\ last.current # undefined
       /\ (template = "base" \/ (~NbaggMode /\ ~last.hit))

\* The visible entries after update(current) has run on the widget.
VisibleAfterUpdate(current) ==
    {i \in DOMAIN update(This, current).cache : update(This, current).cache[i].visible}

\* C13: at most one cache entry is visible in every reachable state, and
\* update(current) for a current in the cache leaves cache[current] as the
\* only visible entry.
C13_AtMostOneVisible ==
    /\ Cardinality(Visible) <= 1
    /\ \A c \in DOMAIN cache : VisibleAfterUpdate(c) = {c}

C13_Witness ==
    /\ last.op = "set_frame" /\ last.hit
    /\ Cardinality(DOMAIN cache) >= 3
    /\ Visible = {current_frame}
    /\ current_frame # 0

\* C14: with load_json false, once update_cache has run every key of frames
\* is a key of cache.
C14_AllFramesCached ==
    (~load_json /\ RanUpdateCache) => DOMAIN frames \subseteq DOMAIN cache

\* C15: in dynamic mode (cached false, mode not nbagg), once the reply to a
\* request for index k has been processed, k is in the cache and cache[k]
\* is the visible entry.
C15_ReplyShowsFrame ==
    (~cached /\ ~NbaggMode /\ last.op = "reply" /\ last.current # undefined)
        => /\ last.current \in DOMAIN cache
           /\ Visible = {last.current}

\* C16: in dynamic mode, whenever no reply is outstanding and current_frame
\* is in the cache, the visible entry is cache[current_frame].
C16_VisibleIsCurrent ==
    (anim /\ ~cached /\ ~NbaggMode /\ kernel = {} /\ current_frame \in DOMAIN cache)
        => Visible = {current_frame}

\* C17: a set_frame whose key is not a key of keyMap sends no kernel
\* request and leaves current_frame a valid frame index.
C17_UnknownKeyIgnored ==
    (last.sf /\ CurrentKey \notin DOMAIN keyMap)
        => /\ last.sent = 0
           /\ current_frame # undefined
           /\ \E k \in DOMAIN keyMap : keyMap[k] = current_frame

\* C18: at most one DOM fragment is created per frame index and
\* populate_cache runs at most once per index; update_cache is idempotent.
C18_OneFragmentPerIndex ==
    /\ divs = Cardinality(DOMAIN cache)
    /\ \A i \in DOMAIN cache : cache[i].fills = 1
    /\ \A i, j \in DOMAIN cache : cache[i].div = cache[j].div => i = j
    /\ update_cache(update_cache(This)) = update_cache(This)

C18_Witness ==
    /\ last.op = "reply" /\ RanUpdateCache /\ last.hit
    /\ Cardinality(DOMAIN cache) >= 2
    /\ divs = Cardinality(DOMAIN cache)

\* C19: update(current) with current not in the cache changes nothing, so
\* a set_frame of a cached widget that resolves to such an index leaves
\* the cache, with the visibility of its entries, and frames as they were.
C19_UpdateMissNoop ==
    /\ [](\A c \in ((0..MaxFrames) \cup {undefined}) \ DOMAIN cache :
             update(This, c) = This)
    /\ [][(anim /\ cached /\ calls' = calls + 1 /\ current_frame' \notin DOMAIN cache)
             => (cache' = cache /\ frames' = frames)]_vars

C19_Witness ==
    /\ cached /\ last.op = "set_frame" /\ ~last.hit
    /\ Cardinality(Visible) = 1
    /\ current_frame \notin DOMAIN cache

\* C20: right after construction of a cached widget (cached true,
\* load_json false) whose frame map holds frame 0, every key of the frame
\* map is in the cache, cache[0] is the only visible entry, current_frame
\* is 0 and no kernel request was sent.
C20_CachedConstruction ==
    (cached /\ ~load_json /\ last.op = "create_widget" /\ 0 \in DOMAIN frames)
        => /\ DOMAIN frames \subseteq DOMAIN cache
           /\ Visible = {0}
           /\ current_frame = 0
           /\ sent = 0 /\ kernel = {}

\* Replies processed so far.
Processed == sent - Cardinality(kernel)

C22_NbaggAlwaysRequests ==
    /\ (NbaggMode /\ ~cached /\ last.op = "create_widget")
          => /\ last.sf /\ calls = 2
             /\ cache = update(update_cache([This EXCEPT !.cache = <<>>,
                                                          !.divs = 0]), 0).cache
             /\ current_frame = Lookup(keyMap, CurrentKey)
    /\ (NbaggMode /\ ~cached /\ last.sf)
          => /\ last.sent = 1
             /\ \E r \in kernel : /\ r.rid = sent
                                  /\ r.current = current_frame
                                  /\ r.cmd = Cmd(current_frame)

C22_Witness ==
    /\ NbaggMode /\ ~cached /\ last.op = "set_frame" /\ last.hit
    /\ current_frame = 1 /\ Visible = {0}
    /\ last.sent = 1 /\ sent = 2

\* The indices keyMap resolves to.
KeyMapIndices == {keyMap[k] : k \in DOMAIN keyMap}

\* C23: when load_json is true and keyMap maps its n keys onto 0..n-1,
\* update_cache creates cache entries for exactly the indices 0..n-1, each
\* loaded from the URL <server>/fig_<id>/<index>, without reading the frame
\* map; after it every index keyMap can resolve to is in the cache.
C23_LoadJsonCachesKeyMap ==
    (load_json /\ KeyMapIndices = 0..(Cardinality(DOMAIN keyMap) - 1))
        => /\ DOMAIN cache \in {{}, 0..(Cardinality(DOMAIN keyMap) - 1)}
           /\ RanUpdateCache => KeyMapIndices \subseteq DOMAIN cache
           /\ \A i \in DOMAIN cache :
                 /\ cache[i].url = Server \o "/fig_" \o WidgetId \o "/" \o IntStr(i)
                 /\ cache[i].kind \in {"load", "getJSON"}
                 /\ cache[i].data = NoData
           /\ update_cache([This EXCEPT !.frames = <<>>]).cache = update_cache(This).cache

C23_Witness ==
    /\ load_json /\ last.op = "create_widget" /\ RanUpdateCache
    /\ DOMAIN frames = {1}
    /\ DOMAIN cache = 0..2
    /\ cache[2].url = "http://server/fig_w1/2"

C25_SetFrameFrame ==
    [][/\ (anim /\ calls' = calls + 1)
            => /\ \E d \in 1..Len(slider_ids) : \E v \in 1..Len(valMap[d]) :
                     current_vals' = [current_vals EXCEPT ![d] = valMap[d][v]]
               /\ ~last'.threw =>
                     current_frame' =
                        Lookup(keyMap, BuildKey(current_vals', Len(slider_ids)))
               /\ keyMap' = keyMap /\ slider_ids' = slider_ids /\ frames' = frames
       /\ (~anim /\ anim')
            => /\ current_vals' = current_vals
               /\ keyMap' = keyMap /\ slider_ids' = slider_ids
               /\ frames' = frames]_vars

C25_Witness ==
    /\ last.op = "set_frame" /\ calls = 3 /\ Len(slider_ids) = 2
    /\ current_vals = <<Num(5), Str("b")>>
    /\ CurrentKey = "('0.5000000000', 'b')"

RECURSIVE Joined(_, _)
\* The strings of a sequence in single quotes, ', ' between them.
Joined(strs, i) ==
    IF i > Len(strs) THEN ""
    ELSE "'" \o strs[i] \o "'" \o (IF i < Len(strs) THEN ", " ELSE "")
             \o Joined(strs, i + 1)

\* A tuple of strings as Python writes it.
TupleStr(strs) ==
    "(" \o Joined(strs, 1) \o (IF Len(strs) = 1 THEN "," ELSE "") \o ")"

\* C26: the key set_frame builds is the stringified tuple of the values of
\* all slider_ids.length dimensions in dimension order: each value in
\* single quotes, ', ' between values, parentheses around, and a trailing
\* comma exactly when there is one dimension.
C26_KeyIsTuple ==
    /\ CurrentKey = TupleStr([i \in 1..Len(slider_ids) |-> FormatVal(current_vals[i])])
    /\ BuildKey(<<Str("a")>>, 1) = "('a',)"
    /\ BuildKey(<<Str("a"), Str("b")>>, 2) = "('a', 'b')"
    /\ BuildKey(<<Str("a"), Str("b"), Str("c")>>, 3) = "('a', 'b', 'c')"
    /\ last.sf => current_frame = Lookup(keyMap, CurrentKey)

C26_Witness ==
    /\ last.op = "set_frame" /\ Len(slider_ids) = 1
    /\ CurrentKey = "('0.5000000000',)"
    /\ current_frame = 1

\* The text toFixed(1) gives a whole number and toFixed(10) any other.
OneDecimal(t) == IntStr(t \div 10) \o ".0"
TenDecimals(t) ==
    IntStr(t \div 10) \o "." \o DigitStr[(t % 10) + 1] \o "000000000"

\* C27: in the key built by set_frame a numeric value that is whole is
\* written with one decimal digit, a numeric value that is not whole with
\* ten, and a value that is not numeric unchanged; current_vals keeps the
\* unformatted value.  Every set_frame builds its key this way.
C27_ValueFormat ==
    last.op = "set_frame"
        => /\ ~last.threw
           /\ \A i \in 1..Len(slider_ids) :
                 LET v == current_vals[i]
                 IN /\ \E j \in 1..Len(valMap[i]) : v = valMap[i][j]
                    /\ FormatVal(v) =
                          IF v.isnum
                          THEN IF v.tenths % 10 = 0 THEN OneDecimal(v.tenths)
                               ELSE TenDecimals(v.tenths)
                          ELSE v.str

\* C30: a slider slide event or a dropdown change event handled before the
\* widget object anim<id> exists does not call set_frame and raises no
\* error, for sliders as for dropdowns.
C30_EarlyEventIgnored ==
    last.op = "event" => /\ ~last.threw
                         /\ calls = 0
                         /\ current_vals = [d \in 1..Len(valMap) |-> valMap[d][1]]

\* The positions a playback steps through, in the order the claim gives.
Expected(p) ==
    IF p.forward
    THEN [j \in 1..(p.stop - p.start + 1) |-> p.start + (j - 1)]
    ELSE [j \in 1..(p.start - p.stop + 1) |-> p.start - (j - 1)]

\* The steps of playback n that have not run.
Pending(n) == {t \in timers : t.kind = "step" /\ t.play = n}

\* C28: pressing P or p on a slider at position s schedules one step for
\* every position s..max and the steps take effect in strictly increasing
\* position order, ending with the slider at max; R or r does the same for
\* s..min in strictly decreasing order, ending at min; each step sets the
\* slider value and invokes the slide handler with that position.
C28_PlaybackInOrder ==
    /\ \A n \in 1..Len(plays) :
          LET p == plays[n]
              e == Expected(p)
          IN /\ p.stop = IF p.forward THEN SliderMax ELSE 0
             /\ Len(p.done) <= Len(e)
             /\ p.done = SubSeq(e, 1, Len(p.done))
             /\ {t.i : t \in Pending(n)} = {e[j] : j \in (Len(p.done) + 1)..Len(e)}
             /\ Cardinality(Pending(n)) = Len(e) - Len(p.done)
    /\ fired.kind = "step"
          => /\ value = fired.i
             /\ fired.arg = fired.i /\ throttled.args = fired.i
             /\ Len(plays[fired.play].done) = Len(Expected(plays[fired.play]))
                   => value = plays[fired.play].stop

C28_Witness ==
    /\ Len(plays) = 1 /\ plays[1].forward /\ plays[1].start = 1
    /\ plays[1].done = <<1, 2>> /\ fired.kind = "step"
    /\ value = 2 /\ delay = 2 /\ timers = {}
    /\ anim /\ current_frame = 2 /\ Visible = {2}

\* C29: in a playback started at slider position s the k-th step counted
\* from s is scheduled k * delay after the key press, forward as reverse.
C29_StepDelay ==
    \A t \in timers :
        t.kind = "step" => t.at = plays[t.play].pressed + t.k * delay

====
